---- MODULE Spec2Model ----
(***************************************************************************)
(* The pod storage of pkg/registry/pod/etcd: one etcd-backed store shared  *)
(* by the pod, binding, status, log and proxy endpoints.  The model is     *)
(* centred on BindingREST.Create: request validation, the AtomicUpdate     *)
(* compare-and-swap loop with the bind closure, and assignPod's error      *)
(* translation, run by several concurrent callers next to writers that go  *)
(* through the pod store and the status store.                             *)
(***************************************************************************)
EXTENDS Integers, FiniteSets, Sequences, TLC

(***************************************************************************)
(* Bounds of the model.                                                    *)
(***************************************************************************)
\* callers of BindingREST.Create racing for one unassigned pod
NumRacers == 2
\* attempts of one AtomicUpdate call before it gives up with a conflict
MaxAttempts == 2
\* the pod store and the status store commit while the pod's version is below this
MaxVersion == 3

\* two schedulers, each calling BindingREST.Create again and again
Binders == {1, 2}
Racers == 1..NumRacers

(***************************************************************************)
(* Values.                                                                 *)
(***************************************************************************)
\* pod names: "a" is stored, "b" never is, "" has no storage key
Names == {"", "a", "b"}
Hosts == {"h1", "h2", "h3"}
\* Binding.Target.Kind as a caller may send it
Kinds == {"", "Node", "Minion", "Pod"}
Phases == {"Pending", "Running"}

\* a Go map[string]string; <<>>-like maps are built with an empty domain
EmptyMap == [k \in {} |-> "1"]
MapA1 == [k \in {"a"} |-> "1"]
MapB2 == [k \in {"b"} |-> "2"]
MapB3 == [k \in {"b"} |-> "3"]
\* Binding.Annotations as a caller may send them
ReqAnns == {EmptyMap, MapA1, MapB3}

\* Pod.Annotations: a nil map, or a map
NilAnnotations == [nil |-> TRUE, kv |-> EmptyMap]
MakeAnnotations(m) == [nil |-> FALSE, kv |-> m]
\* the annotations a pod is created with
InitAnns == {NilAnnotations, MakeAnnotations(MapB2)}

NoPod == [exists |-> FALSE]

\* &api.Pod{} as AtomicUpdate hands it to the closure when the key is absent
ZeroPod(name) ==
  [exists |-> TRUE, name |-> name, specHost |-> "", statusHost |-> "",
   annotations |-> NilAnnotations, phase |-> "", version |-> 0]

(***************************************************************************)
(* Errors: kind, whether the Go value is an *errors.StatusError, and a     *)
(* detail (the field of an Invalid error, the cause of a Conflict).        *)
(***************************************************************************)
Err(kind, status, detail) == [kind |-> kind, status |-> status, detail |-> detail]
NoErr == Err("nil", FALSE, "")
\* etcd client errors
EtcdKeyNotFound == Err("EtcdKeyNotFound", FALSE, "")
EtcdTestFailed == Err("EtcdTestFailed", FALSE, "")
EtcdNodeExist == Err("EtcdNodeExist", FALSE, "")
EtcdTimeout == Err("Timeout", FALSE, "")
\* api/errors constructors
NewInvalid(field) == Err("Invalid", TRUE, field)
NewNotFound == Err("NotFound", TRUE, "")
NewConflict(cause) == Err("Conflict", TRUE, cause.kind)

(***************************************************************************)
(* NewStorage: the store behind Pod, Binding, Log and Proxy, and the copy  *)
(* behind Status.  statusStore is copied from store before the strategies  *)
(* and hooks are assigned, so it carries none of them but the update       *)
(* strategy assigned to it afterwards.                                     *)
(***************************************************************************)
BaseStore ==
  [prefix |-> "/registry/pods", EndpointName |-> "pods", Helper |-> "h",
   CreateStrategy |-> "nil", UpdateStrategy |-> "nil", AfterUpdate |-> FALSE,
   DeleteStrategy |-> "nil", ReturnDeletedObject |-> FALSE, AfterDelete |-> FALSE]
PodStore ==
  [BaseStore EXCEPT !.CreateStrategy = "pod.Strategy",
                    !.UpdateStrategy = "pod.Strategy",
                    !.AfterUpdate = TRUE,
                    !.DeleteStrategy = "pod.Strategy",
                    !.ReturnDeletedObject = TRUE,
                    !.AfterDelete = TRUE]
StatusStore_CopiedLate == [PodStore EXCEPT !.UpdateStrategy = "pod.StatusStrategy"]

StatusStore == [BaseStore EXCEPT !.UpdateStrategy = "pod.StatusStrategy"]

(***************************************************************************)
(* BindingREST.Create: the two checks made before assignPod is called.     *)
(***************************************************************************)
ValidateBinding_NameUnchecked(kind, target) ==
  IF kind # "" /\ (kind # "Node" /\ kind # "Minion")
    THEN NewInvalid("to.kind")
    ELSE NoErr

ValidateBinding(kind, target) ==
  IF kind # "" /\ (kind # "Node" /\ kind # "Minion")
    THEN NewInvalid("to.kind")
    ELSE IF target = ""
      THEN NewInvalid("to.name")
      ELSE NoErr

(***************************************************************************)
(* store.KeyFunc: NamespaceKeyFunc under "/registry/pods".  A record key   *)
(* exists for a non-empty name; the failure is an identifier error whose   *)
(* Go type (a StatusError or not) the caller of KeyFunc gets to see.       *)
(***************************************************************************)
KeyFuncFails(name) == name = ""
KeyFuncErrs == {Err("InvalidIdentifier", TRUE, ""), Err("InvalidIdentifier", FALSE, "")}

(***************************************************************************)
(* The closure passed to AtomicUpdate by setPodHostAndAnnotations.         *)
(***************************************************************************)
\* pod.Annotations[k] = v
MapPut(m, k, v) == [x \in (DOMAIN m) \cup {k} |-> IF x = k THEN v ELSE m[x]]

\* for k, v := range annotations { pod.Annotations[k] = v }
RECURSIVE RangePut(_, _, _)
RangePut(m, r, keys) ==
  IF keys = {}
    THEN m
    ELSE LET k == CHOOSE x \in keys : TRUE
         IN RangePut(MapPut(m, k, r[k]), r, keys \ {k})

MergeAnnotations_KeepExisting(current, annotations) ==
  MakeAnnotations([x \in (DOMAIN current.kv) \cup (DOMAIN annotations) |->
                     IF x \in DOMAIN current.kv THEN current.kv[x] ELSE annotations[x]])

\* lines 147-152: a nil map is made first, then the request's entries are put
MergeAnnotations(current, annotations) ==
  LET made == IF current.nil THEN EmptyMap ELSE current.kv
  IN MakeAnnotations(RangePut(made, annotations, DOMAIN annotations))

Rejects_UnlessSameMachine(pod, oldMachine, machine) ==
  (pod.specHost # oldMachine /\ pod.specHost # machine)
  \/ (pod.statusHost # oldMachine /\ pod.statusHost # machine)

Rejects_StatusHostOnly(pod, oldMachine, machine) == pod.statusHost # oldMachine

Rejects_Never(pod, oldMachine, machine) == FALSE

Rejects_SpecHostOnly(pod, oldMachine, machine) == pod.specHost # oldMachine

\* line 142
Rejects(pod, oldMachine, machine) ==
  pod.specHost # oldMachine \/ pod.statusHost # oldMachine

AlreadyAssigned == Err("AlreadyAssigned", FALSE, "")

tryUpdate_SpecHostOnly(pod, oldMachine, machine, annotations) ==
  IF Rejects(pod, oldMachine, machine)
    THEN [err |-> AlreadyAssigned, pod |-> pod]
    ELSE [err |-> NoErr,
          pod |-> [pod EXCEPT !.specHost = machine,
                              !.annotations = MergeAnnotations(pod.annotations, annotations)]]

tryUpdate_FreshPod(pod, oldMachine, machine, annotations) ==
  IF Rejects(pod, oldMachine, machine)
    THEN [err |-> AlreadyAssigned, pod |-> pod]
    ELSE [err |-> NoErr,
          pod |-> [ZeroPod(pod.name) EXCEPT
                     !.specHost = machine,
                     !.statusHost = machine,
                     !.annotations = MergeAnnotations(pod.annotations, annotations)]]

\* lines 138-154: the new pod, or the error that ends the update
tryUpdate(pod, oldMachine, machine, annotations) ==
  IF Rejects(pod, oldMachine, machine)
    THEN [err |-> AlreadyAssigned, pod |-> pod]
    ELSE [err |-> NoErr,
          pod |-> [pod EXCEPT !.specHost = machine,
                              !.statusHost = machine,
                              !.annotations = MergeAnnotations(pod.annotations, annotations)]]

\* line 137: AtomicUpdate(podKey, &api.Pod{}, false, ...)
IgnoreNotFound_True == TRUE

IgnoreNotFound == FALSE

\* line 161: the machine the pod must be on for assignPod to bind it
OldMachine == ""

(***************************************************************************)
(* assignPod's translation of the error of setPodHostAndAnnotations.       *)
(***************************************************************************)
\* etcderr.InterpretGetError
InterpretGetError(err) ==
  IF err.kind = "EtcdKeyNotFound" THEN NewNotFound ELSE err

\* etcderr.InterpretUpdateError
InterpretUpdateError(err) ==
  IF err.kind \in {"EtcdTestFailed", "EtcdNodeExist"} THEN NewConflict(err) ELSE err

assignPodErr_Unwrapped(err) ==
  IF err = NoErr THEN NoErr ELSE InterpretUpdateError(InterpretGetError(err))

assignPodErr_NilWrapped(err) ==
  LET e == InterpretUpdateError(InterpretGetError(err))
  IN IF e.status THEN e ELSE NewConflict(e)

\* lines 161-168
assignPodErr(err) ==
  IF err = NoErr
    THEN NoErr
    ELSE LET e == InterpretUpdateError(InterpretGetError(err))
         IN IF e.status THEN e ELSE NewConflict(e)

\* line 137: the update goes to store.Helper, the etcd helper below the
\* generic store, which knows nothing of the store's AfterUpdate
BindRunsAfterUpdate_ViaStore == PodStore.AfterUpdate

BindRunsAfterUpdate == FALSE

\* lines 160-169: assignPod calls setPodHostAndAnnotations once, whatever it returns
assignPodRetries_OnRejection(err) == err.kind = "AlreadyAssigned"

assignPodRetries_OnTestFailed(err) == err.kind = "EtcdTestFailed"

assignPodRetries(err) == FALSE

(***************************************************************************)
(* State.                                                                  *)
(***************************************************************************)
VARIABLES
  store,             \* etcd: pod name -> the stored pod, or NoPod
  pc,                \* where each caller of BindingREST.Create is
  req,               \* the binding each caller sent
  loc,               \* AtomicUpdate's locals: index read, object to write, attempt
  rawErr,            \* what setPodHostAndAnnotations returned to assignPod
  result,            \* what Create returned: out and err
  hist,              \* per caller: what its call has done to the store so far
  afterUpdateRan,    \* the step just taken invoked podLifecycle.AfterUpdate
  location,          \* the last answer of LogREST/ProxyREST.ResourceLocation
  lastUpdate,        \* the last Update through the generic store, as observed
  fw,                \* the flushWriter, its wrapped writer and its last Write
  shim               \* ShimForOpenShift: the package variable and the last call

vars == <<store, pc, req, loc, rawErr, result, hist, afterUpdateRan,
          location, lastUpdate, fw, shim>>

\* what the pod registry's steps leave alone
aux == <<location, lastUpdate, fw, shim>>

StoreKeys == Names \ {""}

NoReq == [name |-> "", kind |-> "", target |-> "", annotations |-> EmptyMap]
NoLoc == [index |-> 0, newObj |-> NoPod, attempt |-> 0]
NoResult == [out |-> "nil", err |-> NoErr]
NoHist ==
  [reads |-> 0, calls |-> 0, writes |-> 0, rejections |-> 0, races |-> 0,
   timedOut |-> FALSE, hooked |-> FALSE, boundToTarget |-> FALSE]

\* nothing resolved, nothing updated, no writer wrapped, no shim call yet
NoLocation == [surface |-> "none"]
NoUpdate == [surface |-> "none"]
NoWriter == [made |-> FALSE]
NoShim ==
  [called |-> FALSE, calls |-> 0, InformerFactoryOverride |-> 0, selectorSet |-> FALSE]

InitPod(anns) ==
  [exists |-> TRUE, name |-> "a", specHost |-> "", statusHost |-> "",
   annotations |-> anns, phase |-> "Pending", version |-> 1]

\* pod "a" as the admission path created it: unassigned, no annotations yet
InitFor(callers) ==
  /\ store = [n \in StoreKeys |-> IF n = "a" THEN InitPod(NilAnnotations) ELSE NoPod]
  /\ pc = [b \in callers |-> "idle"]
  /\ req = [b \in callers |-> NoReq]
  /\ loc = [b \in callers |-> NoLoc]
  /\ rawErr = [b \in callers |-> NoErr]
  /\ result = [b \in callers |-> NoResult]
  /\ hist = [b \in callers |-> NoHist]
  /\ afterUpdateRan = FALSE
  /\ location = NoLocation
  /\ lastUpdate = NoUpdate
  /\ fw = NoWriter
  /\ shim = NoShim

Init == InitFor(Binders)

(***************************************************************************)
(* BindingREST.Create, up to the call of AtomicUpdate: validation, then    *)
(* assignPod -> setPodHostAndAnnotations -> KeyFunc.                       *)
(***************************************************************************)
\* the store holds the named pod, assigned to the host
AssignedTo(name, host) ==
  /\ name \in StoreKeys
  /\ store[name].exists
  /\ store[name].specHost = host
  /\ store[name].statusHost = host

Call(b, r) ==
  /\ pc[b] = "idle"
  /\ req' = [req EXCEPT ![b] = r]
  /\ hist' = [hist EXCEPT ![b].boundToTarget = (r.target # "" /\ AssignedTo(r.name, r.target))]
  /\ LET invalid == ValidateBinding(r.kind, r.target)
     IN IF invalid # NoErr
          THEN /\ pc' = [pc EXCEPT ![b] = "done"]
               /\ result' = [result EXCEPT ![b] = [out |-> "nil", err |-> invalid]]
               /\ UNCHANGED <<rawErr, loc>>
          ELSE IF KeyFuncFails(r.name)
            THEN /\ \E e \in KeyFuncErrs : rawErr' = [rawErr EXCEPT ![b] = e]
                 /\ pc' = [pc EXCEPT ![b] = "assign"]
                 /\ UNCHANGED <<result, loc>>
            ELSE /\ pc' = [pc EXCEPT ![b] = "get"]
                 /\ loc' = [loc EXCEPT ![b].attempt = 1]
                 /\ UNCHANGED <<result, rawErr>>
  /\ afterUpdateRan' = FALSE
  /\ UNCHANGED <<store, aux>>

\* the bindings sent.  Kind "Node": every pod name and target name, with
\* annotations for pod "a" (to h1 with {a:1} or {b:3}, to h2 with none).
\* The other kinds: pod "b", target name "" or h1.
Requests ==
  {r \in [name : Names, kind : Kinds, target : {"", "h1", "h2"}, annotations : ReqAnns] :
     /\ r.kind # "Node" => (r.name = "b" /\ r.target # "h2")
     /\ (r.name = "a" /\ r.target = "h1") => r.annotations # EmptyMap
     /\ (r.name # "a" \/ r.target # "h1") => r.annotations = EmptyMap}

Create(b) == \E r \in Requests : Call(b, r)

(***************************************************************************)
(* Helper.AtomicUpdate(podKey, &api.Pod{}, IgnoreNotFound, tryUpdate): one *)
(* round reads the key and runs the closure on what it read (Get), then    *)
(* writes the closure's result if the key still has the index read (Cas);  *)
(* a lost compare-and-swap starts another round, up to MaxAttempts rounds. *)
(***************************************************************************)
\* AtomicUpdate returns err to setPodHostAndAnnotations, which returns it to assignPod
Returns(b, err) ==
  /\ rawErr' = [rawErr EXCEPT ![b] = err]
  /\ pc' = [pc EXCEPT ![b] = "assign"]
  /\ loc' = [loc EXCEPT ![b] = NoLoc]

Get(b) ==
  /\ pc[b] = "get"
  /\ LET name == req[b].name
         cur == store[name]
     IN IF ~cur.exists /\ ~IgnoreNotFound
          THEN /\ Returns(b, EtcdKeyNotFound)
               /\ hist' = [hist EXCEPT ![b].reads = @ + 1]
          ELSE LET obj == IF cur.exists THEN cur ELSE ZeroPod(name)
                   u == tryUpdate(obj, OldMachine, req[b].target, req[b].annotations)
               IN IF u.err # NoErr
                    THEN /\ Returns(b, u.err)
                         /\ hist' = [hist EXCEPT ![b].reads = @ + 1,
                                                 ![b].calls = @ + 1,
                                                 ![b].rejections = @ + 1]
                    ELSE /\ loc' = [loc EXCEPT ![b].index = obj.version,
                                               ![b].newObj = u.pod]
                         /\ pc' = [pc EXCEPT ![b] = "cas"]
                         /\ hist' = [hist EXCEPT ![b].reads = @ + 1,
                                                 ![b].calls = @ + 1]
                         /\ UNCHANGED rawErr
  /\ afterUpdateRan' = FALSE
  /\ UNCHANGED <<store, req, result, aux>>

\* the read of the key times out
GetTimeout(b) ==
  /\ pc[b] = "get"
  /\ Returns(b, EtcdTimeout)
  /\ hist' = [hist EXCEPT ![b].reads = @ + 1, ![b].timedOut = TRUE]
  /\ afterUpdateRan' = FALSE
  /\ UNCHANGED <<store, req, result, aux>>

\* the key still holds what this round read
CasMatches(b) ==
  LET cur == store[req[b].name]
  IN IF loc[b].index = 0 THEN ~cur.exists
     ELSE cur.exists /\ cur.version = loc[b].index

Written(b) ==
  [loc[b].newObj EXCEPT !.version = loc[b].index + 1]

Cas(b) ==
  /\ pc[b] = "cas"
  /\ IF CasMatches(b)
       THEN /\ store' = [store EXCEPT ![req[b].name] = Written(b)]
            /\ Returns(b, NoErr)
            /\ hist' = [hist EXCEPT ![b].writes = @ + 1,
                                    ![b].hooked = BindRunsAfterUpdate]
            /\ afterUpdateRan' = BindRunsAfterUpdate
       ELSE /\ hist' = [hist EXCEPT ![b].races = @ + 1]
            /\ afterUpdateRan' = FALSE
            /\ UNCHANGED store
            /\ IF loc[b].attempt < MaxAttempts
                 THEN /\ loc' = [loc EXCEPT ![b].attempt = @ + 1]
                      /\ pc' = [pc EXCEPT ![b] = "get"]
                      /\ UNCHANGED rawErr
                 ELSE Returns(b, IF loc[b].index = 0 THEN EtcdNodeExist
                                 ELSE EtcdTestFailed)
  /\ UNCHANGED <<req, result, aux>>

\* the write times out: etcd has applied it, or has not
CasTimeout(b) ==
  /\ pc[b] = "cas"
  /\ Returns(b, EtcdTimeout)
  /\ \E applied \in BOOLEAN :
       IF applied /\ CasMatches(b)
         THEN /\ store' = [store EXCEPT ![req[b].name] = Written(b)]
              /\ hist' = [hist EXCEPT ![b].writes = @ + 1, ![b].timedOut = TRUE]
         ELSE /\ hist' = [hist EXCEPT ![b].timedOut = TRUE]
              /\ UNCHANGED store
  /\ afterUpdateRan' = FALSE
  /\ UNCHANGED <<req, result, aux>>

(***************************************************************************)
(* assignPod's error translation and Create's return.  Create sets out to  *)
(* a success Status whatever assignPod returned.                           *)
(***************************************************************************)
Assign(b) ==
  /\ pc[b] = "assign"
  /\ IF assignPodRetries(rawErr[b])
       THEN /\ pc' = [pc EXCEPT ![b] = "get"]
            /\ loc' = [loc EXCEPT ![b].attempt = 1]
            /\ UNCHANGED result
       ELSE /\ pc' = [pc EXCEPT ![b] = "done"]
            /\ result' = [result EXCEPT ![b] =
                            [out |-> "Success", err |-> assignPodErr(rawErr[b])]]
            /\ UNCHANGED loc
  /\ afterUpdateRan' = FALSE
  /\ UNCHANGED <<store, req, rawErr, hist, aux>>

(***************************************************************************)
(* Writers through the generic store's Update: REST.Update on the pod      *)
(* store and StatusREST.Update on the status store.  The strategy decides  *)
(* which part of the payload is stored; the store's AfterUpdate, if it has *)
(* one, runs after the commit.                                             *)
(***************************************************************************)
Payloads ==
  [specHost : {"", "h1"}, statusHost : {"", "h1"}, phase : Phases, annotations : InitAnns]

\* pod.Strategy stores the payload's metadata, keeps the status and admits no
\* change of Spec.Host; pod.StatusStrategy stores the payload's status only
Prepared(st, old, new) ==
  IF st.UpdateStrategy = "pod.StatusStrategy"
    THEN [old EXCEPT !.statusHost = new.statusHost, !.phase = new.phase]
    ELSE [old EXCEPT !.annotations = new.annotations]

Admits(st, old, new) ==
  st.UpdateStrategy = "pod.Strategy" => new.specHost = old.specHost

EtcdUpdate(st, name, new) ==
  /\ store[name].exists
  /\ store[name].version < MaxVersion
  /\ Admits(st, store[name], new)
  /\ store' = [store EXCEPT ![name] =
                 [Prepared(st, store[name], new) EXCEPT !.version = @ + 1]]
  /\ afterUpdateRan' = st.AfterUpdate
  /\ UNCHANGED <<pc, req, loc, rawErr, result, hist, location, fw, shim>>

\* the payloads apart in what pod.Strategy looks at, and in what
\* pod.StatusStrategy looks at
PodPayloads == {new \in Payloads : new.statusHost = "" /\ new.phase = "Pending"}

StatusPayloads == {new \in Payloads : new.specHost = "" /\ new.annotations = NilAnnotations}

PodUpdate ==
  \E name \in StoreKeys, new \in PodPayloads :
    EtcdUpdate(PodStore, name, new) /\ UNCHANGED lastUpdate

StatusUpdate ==
  \E name \in StoreKeys, new \in StatusPayloads :
    EtcdUpdate(StatusStore, name, new) /\ UNCHANGED lastUpdate

\* the caller has its answer and is free to call again
Return(b) ==
  /\ pc[b] = "done"
  /\ pc' = [pc EXCEPT ![b] = "idle"]
  /\ req' = [req EXCEPT ![b] = NoReq]
  /\ loc' = [loc EXCEPT ![b] = NoLoc]
  /\ rawErr' = [rawErr EXCEPT ![b] = NoErr]
  /\ result' = [result EXCEPT ![b] = NoResult]
  /\ hist' = [hist EXCEPT ![b] = NoHist]
  /\ afterUpdateRan' = FALSE
  /\ UNCHANGED <<store, aux>>

Next ==
  \/ \E b \in Binders : Create(b)
  \/ \E b \in Binders : Get(b)
  \/ \E b \in Binders : GetTimeout(b)
  \/ \E b \in Binders : Cas(b)
  \/ \E b \in Binders : CasTimeout(b)
  \/ \E b \in Binders : Assign(b)
  \/ \E b \in Binders : Return(b)
  \/ PodUpdate
  \/ StatusUpdate

Spec == Init /\ [][Next]_vars

(***************************************************************************)
(* The race for one unassigned pod: NumRacers callers, each sending one    *)
(* valid binding for pod "a" to a host of its own, and nobody else writing.*)
(***************************************************************************)
InitRace == InitFor(Racers)

TakenHosts == {req[b].target : b \in Racers}

RaceCreate(b) ==
  \E r \in [name : {"a"}, kind : {"Node"}, target : Hosts \ TakenHosts,
             annotations : ReqAnns] : Call(b, r)

NextRace ==
  \/ \E b \in Racers : RaceCreate(b)
  \/ \E b \in Racers : Get(b)
  \/ \E b \in Racers : Cas(b)
  \/ \E b \in Racers : Assign(b)

SpecRace == InitRace /\ [][NextRace]_vars

(***************************************************************************)
(* LogREST.ResourceLocation and ProxyREST.ResourceLocation: both read the  *)
(* pod through the store the binding surface writes, and answer with the   *)
(* address of the kubelet on the pod's host, or NotFound for no pod, or    *)
(* Unassigned for a pod with no host.  Racing callers bind pod "a" while   *)
(* locations are resolved.                                                 *)
(***************************************************************************)
Surfaces == {"log", "proxy"}

\* lines 89, 91, 92: Binding, Log and Proxy hold the same *etcdgeneric.Etcd
SurfaceStore(surface) == PodStore

\* lines 213-215 and 238-240
ProxyMethods(surface) ==
  IF surface = "log" THEN <<"GET">>
  ELSE <<"GET", "PUT", "POST", "DELETE", "HEAD", "OPTIONS">>

\* lines 218-220 and 243-245
SupportsUpgrade(surface) == surface = "proxy"

Unassigned == Err("Unassigned", TRUE, "")

\* the port of the kubelet, fixed by configuration
KubeletPort == "kubeletPort"

NoAddress == <<"", "">>

\* the host the resolver takes the pod to be on
AssignedHost(pod) == pod.statusHost

\* pod.LogLocation and pod.ResourceLocation on the pod read through st
Locate(st, surface, name) ==
  LET found == IF st.Helper = PodStore.Helper /\ st.prefix = PodStore.prefix
                 THEN store[name] ELSE NoPod
      answer == [surface |-> surface, name |-> name, err |-> NoErr,
                 address |-> NoAddress, methods |-> ProxyMethods(surface),
                 upgrade |-> SupportsUpgrade(surface)]
  IN IF ~found.exists
       THEN [answer EXCEPT !.err = InterpretGetError(EtcdKeyNotFound)]
       ELSE IF AssignedHost(found) = ""
         THEN [answer EXCEPT !.err = Unassigned]
         ELSE [answer EXCEPT !.address = <<AssignedHost(found), KubeletPort>>]

ResourceLocation(surface, name) ==
  /\ location' = Locate(SurfaceStore(surface), surface, name)
  /\ UNCHANGED <<store, pc, req, loc, rawErr, result, hist, afterUpdateRan,
                 lastUpdate, fw, shim>>

Resolve == \E surface \in Surfaces, name \in StoreKeys : ResourceLocation(surface, name)

NextLocate ==
  \/ \E b \in Racers : RaceCreate(b)
  \/ \E b \in Racers : Get(b)
  \/ \E b \in Racers : Cas(b)
  \/ \E b \in Racers : Assign(b)
  \/ Resolve

SpecLocate == InitRace /\ [][NextLocate]_vars

(***************************************************************************)
(* The two update surfaces observed: one caller binds pod "a" while        *)
(* REST.Update and StatusREST.Update write it; each Update is recorded     *)
(* with its payload, the pod it found, the pod it stored and whether the   *)
(* store's AfterUpdate ran.                                                *)
(***************************************************************************)
Updaters == {1}

InitStatus == InitFor(Updaters)

StatusCreate(b) ==
  \E r \in [name : {"a"}, kind : {"Node"}, target : {"h1", "h2"},
             annotations : {EmptyMap}] : Call(b, r)

UpdateSeen(surface, st) ==
  \E name \in StoreKeys, new \in Payloads :
    /\ EtcdUpdate(st, name, new)
    /\ lastUpdate' = [surface |-> surface, payload |-> new,
                      before |-> store[name], after |-> store'[name],
                      hookRan |-> st.AfterUpdate]

PodUpdateSeen == UpdateSeen("pod", PodStore)

StatusUpdateSeen == UpdateSeen("status", StatusStore)

NextStatus ==
  \/ \E b \in Updaters : StatusCreate(b)
  \/ \E b \in Updaters : Get(b)
  \/ \E b \in Updaters : Cas(b)
  \/ \E b \in Updaters : Assign(b)
  \/ PodUpdateSeen
  \/ StatusUpdateSeen

SpecStatus == InitStatus /\ [][NextStatus]_vars

(***************************************************************************)
(* flushwriter: New wraps a writer, Write passes the bytes to it and       *)
(* flushes it.  The wrapped writer accepts n of the bytes and returns an   *)
(* error or none; as io.Writer requires, it returns an error when it       *)
(* accepts fewer bytes than it was given.                                  *)
(***************************************************************************)
MaxLen == 2
MaxWrites == 3

WriteErr == Err("WriteError", FALSE, "")

\* writer.go lines 14-16: fw.flusher is set if w is an http.Flusher
FlusherOf(isFlusher) == isFlusher

\* writer.go lines 30-35: Flush is called after a Write without error, if
\* there is a flusher
CallsFlush(flusher, err) == err = NoErr /\ flusher

New ==
  /\ ~fw.made
  /\ \E isFlusher \in BOOLEAN :
       fw' = [made |-> TRUE, isFlusher |-> isFlusher, flusher |-> FlusherOf(isFlusher),
              calls |-> 0, unflushed |-> 0,
              last |-> [len |-> 0, under |-> [n |-> 0, err |-> NoErr],
                        ret |-> [n |-> 0, err |-> NoErr], events |-> <<>>]]
  /\ UNCHANGED <<store, pc, req, loc, rawErr, result, hist, afterUpdateRan,
                 location, lastUpdate, shim>>

Write ==
  /\ fw.made
  /\ fw.calls < MaxWrites
  /\ \E len \in 0..MaxLen, n \in 0..MaxLen, err \in {NoErr, WriteErr} :
       /\ n <= len
       /\ n < len => err # NoErr
       /\ LET flush == CallsFlush(fw.flusher, err)
          IN fw' = [fw EXCEPT
                      !.calls = @ + 1,
                      !.unflushed = IF flush THEN 0 ELSE @ + n,
                      !.last = [len |-> len, under |-> [n |-> n, err |-> err],
                                ret |-> [n |-> n, err |-> err],
                                events |-> IF flush THEN <<"Write", "Flush">>
                                           ELSE <<"Write">>]]
  /\ UNCHANGED <<store, pc, req, loc, rawErr, result, hist, afterUpdateRan,
                 location, lastUpdate, shim>>

NextFlush == New \/ Write

SpecFlush == Init /\ [][NextFlush]_vars

(***************************************************************************)
(* ShimForOpenShift.  A call is given the path of the OpenShift config,    *)
(* the shape of the config read from it and the set of steps that return   *)
(* an error; it runs its steps in order up to the first that does not      *)
(* succeed.                                                                *)
(***************************************************************************)
MaxShimCalls == 2

ShimSteps ==
  <<"getOpenShiftConfig", "applyOpenShiftServiceServingCertCAFunc",
    "applyOpenShiftGCConfig", "applyOpenShiftConfigDefaultProjectSelector",
    "newInformerFactory">>

\* the steps that can return an error
Failing == {"getOpenShiftConfig", "applyOpenShiftServiceServingCertCAFunc",
            "applyOpenShiftGCConfig", "newInformerFactory"}

ConfigPaths == {"", "/etc/origin/master-config.yaml"}

\* what the config says of projectConfig.defaultNodeSelector: no
\* projectConfig, no defaultNodeSelector in it, a selector, a projectConfig
\* that is no map, a defaultNodeSelector that is no string
ConfigShapes == {"noProjectConfig", "noSelector", "selector", "projectConfigNoMap",
                 "selectorNoString"}

NoFactory == 0

\* patch.go lines 70-84: returns nil, or panics in a type assertion
SelectorOutcome(shape) ==
  IF shape \in {"projectConfigNoMap", "selectorNoString"} THEN "panic" ELSE "nil"

StepOutcome(step, fails, shape) ==
  IF step = "applyOpenShiftConfigDefaultProjectSelector" THEN SelectorOutcome(shape)
  ELSE IF step \in fails THEN "error" ELSE "nil"

\* patch.go lines 22-48: the steps run from the i-th on, and how the call ends
RECURSIVE RunFrom(_, _, _)
RunFrom(i, fails, shape) ==
  IF i > Len(ShimSteps)
    THEN [ran |-> <<>>, ret |-> "nil"]
    ELSE LET outcome == StepOutcome(ShimSteps[i], fails, shape)
         IN IF outcome = "nil"
              THEN LET rest == RunFrom(i + 1, fails, shape)
                   IN [rest EXCEPT !.ran = <<ShimSteps[i]>> \o @]
              ELSE [ran |-> <<ShimSteps[i]>>, ret |-> outcome]

\* patch.go lines 17-19
SkipsShim(configPath) == configPath = ""

OverrideAfter_Unchecked(override, informers, ret) ==
  IF ret = "nil" THEN informers ELSE NoFactory

\* patch.go lines 44-48
OverrideAfter(override, informers, ret) ==
  IF ret = "nil" THEN informers ELSE override

ShimForOpenShift ==
  /\ shim.calls < MaxShimCalls
  /\ \E configPath \in ConfigPaths, fails \in SUBSET Failing, shape \in ConfigShapes :
       LET run == IF SkipsShim(configPath) THEN [ran |-> <<>>, ret |-> "nil"]
                  ELSE RunFrom(1, fails, shape)
           built == Len(run.ran) = Len(ShimSteps)
       IN shim' = [called |-> TRUE,
                   calls |-> shim.calls + 1,
                   InformerFactoryOverride |->
                     IF built
                       THEN OverrideAfter(shim.InformerFactoryOverride,
                                          shim.calls + 1, run.ret)
                       ELSE shim.InformerFactoryOverride,
                   selectorSet |->
                     \/ shim.selectorSet
                     \/ /\ Len(run.ran) >= 4
                        /\ shape = "selector",
                   last |-> [configPath |-> configPath, fails |-> fails, shape |-> shape,
                             ran |-> run.ran, ret |-> run.ret,
                             before |-> shim.InformerFactoryOverride]]
  /\ UNCHANGED <<store, pc, req, loc, rawErr, result, hist, afterUpdateRan,
                 location, lastUpdate, fw>>

NextShim == ShimForOpenShift

SpecShim == Init /\ [][NextShim]_vars

(***************************************************************************)
(* Properties.                                                             *)
(***************************************************************************)
Callers == DOMAIN pc
Done(b) == pc[b] = "done"
Succeeded(b) == Done(b) /\ result[b].err = NoErr
FailedWith(b, kind) == Done(b) /\ result[b].err.kind = kind
\* the request passes the checks of Create
WellFormed(r) == r.kind \in {"", "Node", "Minion"} /\ r.target # ""
\* a step of caller b
Steps(b) == pc'[b] # pc[b]
\* a step in which caller b writes the pod it names
Commits(b) == pc[b] = "cas" /\ Steps(b) /\ store' # store
\* Spec.Host and Status.Host of the stored pod, empty for a pod not stored
HostsOf(n) ==
  IF store[n].exists THEN <<store[n].specHost, store[n].statusHost>> ELSE <<"", "">>

\* C1: exactly-once binding.  When every one of the racing callers has its
\* answer, exactly one of them got no error, every other one got Conflict,
\* and Spec.Host and Status.Host of the pod are the winner's target.
C1_ExactlyOnce ==
  (\A b \in Callers : Done(b)) =>
    /\ Cardinality({b \in Callers : Succeeded(b)}) = 1
    /\ \A b \in Callers :
         \/ /\ Succeeded(b)
            /\ store["a"].specHost = req[b].target
            /\ store["a"].statusHost = req[b].target
         \/ FailedWith(b, "Conflict")

\* every racer is done and one of them lost a compare-and-swap on the way
C1_Witness ==
  /\ \A b \in Callers : Done(b)
  /\ \E b \in Callers : hist[b].races >= 1 /\ FailedWith(b, "Conflict")

\* C2: first assignment only.  A step of a bind call that changes Spec.Host
\* or Status.Host of a pod finds both empty and leaves both non-empty; it
\* changes neither once one of them is non-empty.
C2_FirstAssignmentOnly ==
  [][\A b \in Callers, n \in StoreKeys :
       (Steps(b) /\ HostsOf(n)' # HostsOf(n)) =>
         /\ HostsOf(n) = <<"", "">>
         /\ HostsOf(n)'[1] # ""
         /\ HostsOf(n)'[2] # ""]_vars

\* a bind to another host was rejected on a pod that stays where it was bound
C2_Witness ==
  \E b \in Callers :
    /\ FailedWith(b, "Conflict")
    /\ hist[b].rejections = 1
    /\ store["a"].specHost # ""
    /\ req[b].target # store["a"].specHost

\* C3: binding is not idempotent.  A well-formed bind to H of a pod that is
\* assigned to H when the call is made ends with Conflict and writes nothing.
C3_NotIdempotent ==
  \A b \in Callers :
    (Done(b) /\ WellFormed(req[b]) /\ hist[b].boundToTarget) =>
      /\ FailedWith(b, "Conflict")
      /\ hist[b].writes = 0

\* the closure rejected a bind to the host the pod is on
C3_Witness ==
  \E b \in Callers :
    /\ Done(b)
    /\ hist[b].boundToTarget
    /\ hist[b].rejections = 1
    /\ store[req[b].name].specHost = req[b].target

\* C4: validation precedes store access.  A bind whose kind is non-empty and
\* neither "Node" nor "Minion", or whose target name is empty, ends with an
\* Invalid error naming to.kind or to.name, having read and written nothing.
C4_ValidationFirst ==
  \A b \in Callers :
    (Done(b) /\ ~WellFormed(req[b])) =>
      /\ FailedWith(b, "Invalid")
      /\ result[b].err.detail =
           IF req[b].kind \notin {"", "Node", "Minion"} THEN "to.kind" ELSE "to.name"
      /\ hist[b].reads = 0
      /\ hist[b].writes = 0

\* one call was refused for its kind and one for its empty target name
C4_Witness ==
  /\ \E b \in Callers : Done(b) /\ req[b].kind = "Pod" /\ req[b].target = "h1"
  /\ \E b \in Callers : Done(b) /\ req[b].kind = "Node" /\ req[b].target = ""

\* C5: annotation merge.  The annotations a bind commits are those of the
\* pod it replaces overridden by the request's: every key of the request
\* has the request's value, every other key of the pod keeps its value, and
\* there is no other key.
C5_AnnotationMerge ==
  [][\A b \in Callers :
       Commits(b) =>
         LET A == store[req[b].name].annotations.kv
             R == req[b].annotations
             S == store'[req[b].name].annotations
         IN /\ ~S.nil
            /\ DOMAIN S.kv = (DOMAIN A) \cup (DOMAIN R)
            /\ \A k \in DOMAIN R : S.kv[k] = R[k]
            /\ \A k \in (DOMAIN A) \ (DOMAIN R) : S.kv[k] = A[k]]_vars

\* a bind with {a:1} went through on a pod annotated {b:2}
C5_Witness ==
  \E b \in Callers :
    /\ Succeeded(b)
    /\ req[b].annotations = MapA1
    /\ store["a"].annotations.kv = [k \in {"a", "b"} |-> IF k = "a" THEN "1" ELSE "2"]

\* C6: a version race does not fail a bind.  A bind that lost the
\* compare-and-swap to another writer, without running out of attempts,
\* timing out or finding the pod assigned, ends without error having
\* written once; and what a bind writes is the pod as the store holds it at
\* that moment, with only the hosts and annotations changed.
C6_RaceRetried ==
  /\ [](\A b \in Callers :
          (Done(b) /\ hist[b].races >= 1 /\ hist[b].races < MaxAttempts
                   /\ hist[b].rejections = 0 /\ ~hist[b].timedOut) =>
            (Succeeded(b) /\ hist[b].writes = 1))
  /\ [][\A b \in Callers :
          Commits(b) =>
            /\ store'[req[b].name].phase = store[req[b].name].phase
            /\ store'[req[b].name].version = store[req[b].name].version + 1]_vars

\* a bind succeeded on its second round and the phase another writer set is kept
C6_Witness ==
  \E b \in Callers :
    /\ Succeeded(b)
    /\ hist[b].races = 1
    /\ store["a"].phase = "Running"
    /\ store["a"].version = 3

\* C7: a rejection is terminal.  Once the closure has rejected, the call
\* reads, invokes and writes nothing more, and it ends with Conflict.
C7_RejectionTerminal ==
  /\ [](\A b \in Callers :
          (Done(b) /\ hist[b].rejections >= 1) =>
            (FailedWith(b, "Conflict") /\ hist[b].rejections = 1))
  /\ [][\A b \in Callers :
          hist[b].rejections >= 1 =>
            \/ hist'[b] = hist[b] /\ store' = store
            \/ ~Steps(b)
            \/ Done(b)]_vars

\* a call ended after one rejection
C7_Witness ==
  \E b \in Callers : FailedWith(b, "Conflict") /\ hist[b].rejections = 1 /\ hist[b].reads = 1

\* C8 as stated: a bind whose store call timed out returns the timeout, not Conflict.
C8_TimeoutSurfaces ==
  \A b \in Callers :
    (Done(b) /\ hist[b].timedOut) => result[b].err.kind = "Timeout"

\* C8: a bind whose store call timed out ends with a Conflict that wraps
\* the timeout.
C8_TimeoutWrapped ==
  \A b \in Callers :
    (Done(b) /\ hist[b].timedOut) => result[b].err = NewConflict(EtcdTimeout)

\* a call ended after a store call of its timed out
C8_Witness ==
  \E b \in Callers : Done(b) /\ hist[b].timedOut /\ WellFormed(req[b])

C10_AbsentNotFound ==
  /\ ~store["b"].exists
  /\ \A b \in Callers :
       (Done(b) /\ WellFormed(req[b]) /\ req[b].name = "b" /\ ~hist[b].timedOut) =>
         (result[b].err = NewNotFound /\ hist[b].writes = 0)

\* a bind of pod "b" ended with NotFound
C10_Witness ==
  \E b \in Callers : FailedWith(b, "NotFound") /\ req[b].name = "b" /\ hist[b].reads = 1


\* C11: a bind whose key derivation fails touches the store not at all and
\* fails; the error is the key function's own error when that is a
\* StatusError and a Conflict wrapping it otherwise, so it is never NotFound.
C11_KeyErrorNoAccess ==
  \A b \in Callers :
    (Done(b) /\ WellFormed(req[b]) /\ KeyFuncFails(req[b].name)) =>
      /\ hist[b].reads = 0 /\ hist[b].calls = 0 /\ hist[b].writes = 0
      /\ rawErr[b] \in KeyFuncErrs
      /\ result[b].err.status
      /\ result[b].err = IF rawErr[b].status THEN rawErr[b] ELSE NewConflict(rawErr[b])
      /\ result[b].err.kind # "NotFound"

\* C11 as stated: a bind whose key derivation fails returns NotFound and
\* touches the store not at all.
C11_KeyErrorNotFound ==
  \A b \in Callers :
    (Done(b) /\ WellFormed(req[b]) /\ KeyFuncFails(req[b].name)) =>
      /\ hist[b].reads = 0 /\ hist[b].writes = 0
      /\ FailedWith(b, "NotFound")

\* a valid binding for the pod with no name came back wrapped as Conflict
C11_Witness ==
  \E b \in Callers :
    /\ Done(b) /\ WellFormed(req[b]) /\ KeyFuncFails(req[b].name)
    /\ ~rawErr[b].status
    /\ FailedWith(b, "Conflict")

\* C12: Create returns either the success Status or an error, never both:
\* with an error the object returned is not the success Status, and with no
\* error it is.
C12_SuccessOrError ==
  \A b \in Callers :
    Done(b) => (result[b].out = "Success" <=> result[b].err = NoErr)

\* C13: a bind call ends.  A call reads the key at most MaxAttempts times
\* and loses at most MaxAttempts compare-and-swaps; a call that is not done
\* has a step to take; and a call that lost the compare-and-swap of every
\* round has left the loop, has written nothing and ends with Conflict.
C13_BoundedRetries ==
  \A b \in Callers :
    /\ hist[b].reads <= MaxAttempts
    /\ hist[b].races <= MaxAttempts
    /\ loc[b].attempt <= MaxAttempts
    /\ pc[b] \in {"get", "cas", "assign"} => ENABLED (Get(b) \/ Cas(b) \/ Assign(b))
    /\ hist[b].races = MaxAttempts =>
         /\ pc[b] \in {"assign", "done"}
         /\ hist[b].writes = 0
         /\ Done(b) => result[b].err = NewConflict(EtcdTestFailed)

\* a call lost every round and was answered Conflict
C13_Witness ==
  \E b \in Callers :
    /\ Done(b)
    /\ hist[b].races = MaxAttempts
    /\ hist[b].reads = MaxAttempts
    /\ FailedWith(b, "Conflict")

\* the step in which caller b's round reads the key and runs the closure
Reads(b) == pc[b] = "get" /\ Steps(b) /\ ~hist'[b].timedOut

\* C17: the precondition looks at both host fields.  A round that reads a
\* pod with Spec.Host or Status.Host non-empty is rejected and the call ends
\* with Conflict, also when only Status.Host is set; a round that reads a
\* pod with both empty is accepted, and the write that follows sets both to
\* the target.
C17_BothFields ==
  [][\A b \in Callers :
       /\ (Reads(b) /\ store[req[b].name].exists) =>
            IF HostsOf(req[b].name) = <<"", "">>
              THEN pc'[b] = "cas" /\ hist'[b].rejections = 0
              ELSE /\ pc'[b] = "assign"
                   /\ hist'[b].rejections = 1
                   /\ assignPodErr(rawErr'[b]) = NewConflict(AlreadyAssigned)
       /\ Commits(b) =>
            /\ HostsOf(req[b].name) = <<"", "">>
            /\ store'[req[b].name].specHost = req[b].target
            /\ store'[req[b].name].statusHost = req[b].target]_vars

\* a bind was refused with Conflict on a pod whose Spec.Host is empty and
\* whose Status.Host a status update has set
C17_Witness ==
  \E b \in Callers :
    /\ FailedWith(b, "Conflict")
    /\ hist[b].rejections = 1
    /\ store[req[b].name].specHost = ""
    /\ store[req[b].name].statusHost # ""

\* C18: a bind that fails writes nothing.  A call answered with an error
\* after a failed validation, a missing pod, a rejection by the precondition
\* or a lost race has made no write, and a step of a call changes the store
\* only in its compare-and-swap.  (A call whose write timed out is the one
\* failed call that may have written.)
C18_FailedBindWritesNothing ==
  [][\A b \in Callers :
       /\ (pc'[b] = "done" /\ result'[b].err # NoErr /\ ~hist'[b].timedOut) =>
            hist'[b].writes = 0
       /\ (Steps(b) /\ pc[b] # "cas") => store' = store
       /\ (Steps(b) /\ pc[b] = "cas" /\ pc'[b] = "assign" /\ rawErr'[b] # NoErr
             /\ ~hist'[b].timedOut) => store' = store]_vars

\* a bind with annotations was rejected by the precondition, and the pod
\* bound to another host has none of them
C18_Witness ==
  \E b \in Callers :
    /\ FailedWith(b, "Conflict")
    /\ hist[b].rejections = 1
    /\ req[b].annotations # EmptyMap
    /\ store[req[b].name].specHost \notin {"", req[b].target}
    /\ store[req[b].name].annotations.kv = EmptyMap


\* what StatusREST.Update stored: the spec and the metadata it found, the
\* status of the payload
StatusOnly ==
  /\ lastUpdate.after.name = lastUpdate.before.name
  /\ lastUpdate.after.specHost = lastUpdate.before.specHost
  /\ lastUpdate.after.annotations = lastUpdate.before.annotations
  /\ lastUpdate.after.statusHost = lastUpdate.payload.statusHost
  /\ lastUpdate.after.phase = lastUpdate.payload.phase
  /\ lastUpdate.after.version = lastUpdate.before.version + 1

\* C15: StatusREST.Update stores the spec it found and the status of the
\* payload.  The status store has the backend of the primary store (helper,
\* key prefix, endpoint) and the status strategy for updates, and it has
\* none of the primary store's create and delete strategies and hooks: no
\* AfterUpdate runs after a status update.
C15_StatusIsolation ==
  lastUpdate.surface = "status" =>
    /\ StatusOnly
    /\ StatusStore.Helper = PodStore.Helper
    /\ StatusStore.prefix = PodStore.prefix
    /\ StatusStore.EndpointName = PodStore.EndpointName
    /\ StatusStore.UpdateStrategy = "pod.StatusStrategy"
    /\ StatusStore.CreateStrategy = "nil" /\ StatusStore.DeleteStrategy = "nil"
    /\ ~StatusStore.ReturnDeletedObject /\ ~StatusStore.AfterDelete
    /\ ~lastUpdate.hookRan

\* C15 as stated: StatusREST.Update stores the spec it found and the status
\* of the payload, through a store that is the primary store with only the
\* update strategy replaced by the status strategy.
C15_OnlyStrategyReplaced ==
  lastUpdate.surface = "status" =>
    /\ StatusOnly
    /\ StatusStore = [PodStore EXCEPT !.UpdateStrategy = "pod.StatusStrategy"]
    /\ lastUpdate.hookRan = PodStore.AfterUpdate

\* a status update of a bound pod whose payload names another host in the
\* spec and another host and phase in the status
C15_Witness ==
  /\ lastUpdate.surface = "status"
  /\ lastUpdate.before.specHost # ""
  /\ lastUpdate.payload.specHost # lastUpdate.before.specHost
  /\ lastUpdate.payload.statusHost # lastUpdate.before.statusHost
  /\ lastUpdate.payload.phase # lastUpdate.before.phase
  /\ lastUpdate.payload.annotations # lastUpdate.before.annotations


\* a step that resolves a location
Resolves == location' # location

\* C14: a location resolved for pod "a" while no bind has written it fails
\* with Unassigned, which is not the NotFound a missing pod gets; a location
\* resolved on either surface after a bind to host H succeeded is no error
\* and the address of the kubelet on H.
C14_ResolveAfterBind ==
  [][Resolves =>
       /\ location'.name = "b" => location'.err = NewNotFound
       /\ (location'.name = "a" /\ \A b \in Callers : hist[b].writes = 0) =>
            /\ location'.err = Unassigned
            /\ location'.err # NewNotFound
            /\ location'.address = NoAddress
       /\ \A b \in Callers :
            (location'.name = "a" /\ Succeeded(b)) =>
              /\ location'.err = NoErr
              /\ location'.address = <<req[b].target, KubeletPort>>]_vars

\* the proxy location of pod "a" was resolved after a bind succeeded, and
\* another caller had lost to it
C14_Witness ==
  /\ location.surface = "proxy"
  /\ location.name = "a"
  /\ location.err = NoErr
  /\ \E b \in Callers : Succeeded(b) /\ location.address = <<req[b].target, KubeletPort>>
  /\ \E b \in Callers : FailedWith(b, "Conflict")


\* C16: every Write of the wrapper is one Write of the wrapped writer,
\* followed by one Flush if the wrapped writer is a Flusher and by none if
\* it is not, and it returns the byte count and the error of the wrapped
\* writer.
C16_FlushAfterEveryWrite ==
  (fw.made /\ fw.calls > 0) =>
    /\ fw.last.events = IF fw.isFlusher THEN <<"Write", "Flush">> ELSE <<"Write">>
    /\ fw.last.ret = fw.last.under

\* the i-th step of the last call returned an error
FailedStep(i) == ShimSteps[i] \in shim.last.fails

\* the steps before the i-th of the last call all succeeded
AllBefore(i) ==
  \A j \in 1..(i - 1) :
    StepOutcome(ShimSteps[j], shim.last.fails, shim.last.shape) = "nil"

\* C19: a call of ShimForOpenShift with no config path runs no step and
\* returns nil; any other call runs the steps in their order and stops at
\* the first that fails.  InformerFactoryOverride is the factory built by
\* the call if all five steps succeeded and the call returned nil, and is
\* what it was before in every other case.
C19_OverrideOnlyOnSuccess ==
  shim.called =>
    LET last == shim.last
        n == Len(last.ran)
    IN /\ last.ran = SubSeq(ShimSteps, 1, n)
       /\ last.configPath = "" => (n = 0 /\ last.ret = "nil")
       /\ (last.configPath # "" /\ last.ret = "nil") => n = Len(ShimSteps)
       /\ last.ret = "error" => (n >= 1 /\ FailedStep(n) /\ AllBefore(n))
       /\ last.ret # "nil" => StepOutcome(ShimSteps[n], last.fails, last.shape) = last.ret
       /\ IF last.configPath # "" /\ last.ret = "nil"
            THEN /\ AllBefore(Len(ShimSteps) + 1)
                 /\ shim.InformerFactoryOverride = shim.calls
                 /\ shim.InformerFactoryOverride # last.before
            ELSE shim.InformerFactoryOverride = last.before

\* after a call that set the override, a call failed in its last step,
\* newInformerFactory, and the override is still the first call's factory
C19_Witness ==
  /\ shim.called
  /\ shim.calls = 2
  /\ shim.last.ret = "error"
  /\ Len(shim.last.ran) = Len(ShimSteps)
  /\ shim.InformerFactoryOverride = 1

====
